---- MODULE Spec2Model ----
(***************************************************************************)
(* Model of the ternary-trie sequence store of seq.c.                       *)
(*                                                                         *)
(* A node (struct seq) is a malloc'd block.  A block is only ever linked   *)
(* as the child `c` of one parent, so the model uses the path from the     *)
(* root as the block's address; `allocated` is the set of live blocks and  *)
(* `next` holds the three child pointers of every block.  A pointer to a   *)
(* block that is not in `allocated` is a dangling pointer.                 *)
(***************************************************************************)
EXTENDS Integers, Sequences, FiniteSets, TLC

\* ---------------------------------------------------------------- bounds
MaxLen == 2          \* longest sequence passed to an operation
MaxNodes == 3        \* most non-root nodes alive at once
MaxClasses == 3      \* cap on the class-id counter
MaxNameLen == 2      \* longest class name kept in the store

\* ------------------------------------------------------------- constants
Symbols == {0, 1, 2}            \* the characters '0', '1', '2'
NULL == <<-1>>                  \* the null pointer (node or char const *)
NULLNAME == <<"NULL">>          \* the null char * of abstract_class_name
Root == <<>>                    \* address of the block made by seq_new
EINVAL == "EINVAL"
ENOMEM == "ENOMEM"
ENONE == "0"                    \* errno = 0
UNSET == "unset"                \* the call did not assign errno

RECURSIVE SeqsOver(_, _)
SeqsOver(S, n) ==
    IF n = 0 THEN {<<>>}
    ELSE LET shorter == SeqsOver(S, n - 1)
         IN  shorter \cup {Append(t, c) : t \in {u \in shorter : Len(u) = n - 1}, c \in S}

AllSeqs == SeqsOver(Symbols, MaxLen)

\* the sequences the calls are made with: of the three symbols, two can open
\* a sequence and two can continue it, so that every child link is used
FirstSymbols == {0, 1}
LaterSymbols == {1, 2}
ValidSeqs ==
    {s \in AllSeqs \ {<<>>} :
        s[1] \in FirstSymbols /\ \A i \in 2..Len(s) : s[i] \in LaterSymbols}

\* the addresses a block can get: the root and the nodes of those sequences
Addr == {Root} \cup ValidSeqs
InvalidSeqs == {<<>>, <<3>>, <<0, 3>>, NULL}
InSeqs == ValidSeqs \cup InvalidSeqs
NameChars == {"A", "B"}
InNames == {<<c>> : c \in NameChars} \cup {<<>>, NULLNAME}

\* the allocator: F is the set of malloc calls of one operation that fail,
\* counted from 1.  For an operation that makes n calls when none fails:
\* no failure, one failing call, or every call failing from some call on
FailSets(n) == {{}} \cup {{k} : k \in 1..n} \cup {k..n : k \in 1..n}

VARIABLES
    allocated,                \* live struct seq blocks
    next,                     \* next_zero / next_one / next_two of each block
    abstract_class,           \* abstract_class of each block
    abstract_class_name,      \* abstract_class_name of each block
    abstract_classes_amount,  \* *abstract_classes_amount, shared by all nodes
    crashed,                  \* the process was terminated by a fault
    last,                     \* the call that produced this state and its result
    minted,                   \* history: class ids minted so far, in order
    minted_by                 \* history: the operation that minted each id,
                              \* kept when minting is under observation

vars == <<allocated, next, abstract_class, abstract_class_name,
          abstract_classes_amount, crashed, last, minted, minted_by>>

NoChildren == [c \in Symbols |-> NULL]

\* the heap as one value, for the operators below
Heap == [allocated |-> allocated, next |-> next,
         abstract_class |-> abstract_class,
         abstract_class_name |-> abstract_class_name]

\* ------------------------------------------------------------ validation
check_str_for_inval_nonempty(s) ==
    IF s = NULL THEN -1
    ELSE IF Len(s) = 0 THEN -1
    ELSE 0

check_str_for_inval(s) ==
    IF s = NULL THEN -1
    ELSE IF Len(s) = 0 THEN -1
    ELSE IF \E i \in 1..Len(s) : s[i] \notin Symbols THEN -1
    ELSE 0

\* ------------------------------------------------------------ navigation
check_seq_for_next(h, p, val) ==
    val \in Symbols /\ h.next[p][val] # NULL

next_seq(h, p, next_char) ==
    IF p = NULL THEN NULL
    ELSE IF next_char \in Symbols THEN h.next[p][next_char]
    ELSE NULL

\* the walk  for (i...) { if (!check_seq_for_next) return 0; cur = next_seq }
\* shared by seq_valid, seq_remove, seq_set_name, seq_get_name, seq_equiv;
\* NULL when some node of the path is missing
RECURSIVE walk(_, _, _, _)
walk(h, cur, s, i) ==
    IF i > Len(s) THEN cur
    ELSE IF ~check_seq_for_next(h, cur, s[i]) THEN NULL
    ELSE walk(h, next_seq(h, cur, s[i]), s, i + 1)

\* ------------------------------------------------------------- creation
new_seq_node_link_inherit(h, p, new_val) ==
    LET temp == Append(p, new_val)
    IN  [h EXCEPT !.allocated = @ \cup {temp},
                  !.abstract_class_name[temp] = h.abstract_class_name[p],
                  !.abstract_class[temp] = h.abstract_class[p],
                  !.next[temp] = NoChildren,
                  !.next[p][new_val] = temp]

\* malloc succeeded: initialise the block and link it under p
new_seq_node_link(h, p, new_val) ==
    LET temp == Append(p, new_val)
    IN  [h EXCEPT !.allocated = @ \cup {temp},
                  !.abstract_class_name[temp] = NULLNAME,
                  !.abstract_class[temp] = -1,
                  !.next[temp] = NoChildren,
                  !.next[p][new_val] = temp]

\* result r: 0 already there, 1 created, -1 malloc failed
new_seq_node(h, p, new_val, mallocFails) ==
    IF new_val \notin Symbols THEN [h |-> h, r |-> -1]
    ELSE IF check_seq_for_next(h, p, new_val) THEN [h |-> h, r |-> 0]
    ELSE IF mallocFails THEN [h |-> h, r |-> -1]
    ELSE [h |-> new_seq_node_link(h, p, new_val), r |-> 1]

\* -------------------------------------------------------------- removal
\* free(p): the block leaves the heap; its former contents are gone
free_node(h, p) ==
    [h EXCEPT !.allocated = @ \ {p},
              !.abstract_class_name[p] = NULLNAME,
              !.abstract_class[p] = -1,
              !.next[p] = NoChildren]

RECURSIVE seq_remove_recur(_, _)
seq_remove_recur(h, p) ==
    IF p = NULL THEN h
    ELSE
        LET h0 == IF h.next[p][0] # NULL
                  THEN [seq_remove_recur(h, h.next[p][0]) EXCEPT !.next[p][0] = NULL]
                  ELSE h
            h1 == IF h0.next[p][1] # NULL
                  THEN [seq_remove_recur(h0, h0.next[p][1]) EXCEPT !.next[p][1] = NULL]
                  ELSE h0
            h2 == IF h1.next[p][2] # NULL
                  THEN [seq_remove_recur(h1, h1.next[p][2]) EXCEPT !.next[p][2] = NULL]
                  ELSE h1
        IN  free_node(h2, p)

detach_nothing(h, parent, c) == h

\* the switch that clears one child pointer of the parent
detach(h, parent, c) ==
    IF c \in Symbols THEN [h EXCEPT !.next[parent][c] = NULL] ELSE h

\* ------------------------------------------------------------- seq_add
seq_add_rollback_none(h, first_added_seq, second_to_last, c) == h

\* rollback of a failed seq_add: free the run of new nodes, clear the link
seq_add_rollback(h, first_added_seq, second_to_last, c) ==
    detach(seq_remove_recur(h, first_added_seq), second_to_last, c)

\* return added_seqs > 0, as a C int
seq_add_result_count(added_seqs) == added_seqs

seq_add_result(added_seqs) == IF added_seqs > 0 THEN 1 ELSE 0

\* the for loop of seq_add; l holds its local variables, k counts mallocs
RECURSIVE seq_add_loop(_, _, _, _, _)
seq_add_loop(h, s, i, l, F) ==
    IF i > Len(s) THEN [h |-> h, ret |-> seq_add_result(l.added_seqs),
                        oom |-> FALSE, k |-> l.k]
    ELSE
        LET willAlloc == ~check_seq_for_next(h, l.current_seq_node, s[i])
            k == IF willAlloc THEN l.k + 1 ELSE l.k
            res == new_seq_node(h, l.current_seq_node, s[i], willAlloc /\ k \in F)
            isFirst == l.first_added_seq = NULL /\ res.r = 1
            l1 == IF isFirst
                  THEN [l EXCEPT !.second_to_last = l.current_seq_node,
                                 !.first_index = i,
                                 !.first_added_seq = next_seq(res.h, l.current_seq_node, s[i])]
                  ELSE l
        IN  IF res.r = -1
            THEN [h |-> IF l1.first_added_seq # NULL
                        THEN seq_add_rollback(res.h, l1.first_added_seq,
                                              l1.second_to_last, s[l1.first_index])
                        ELSE res.h,
                  ret |-> -1, oom |-> TRUE, k |-> k]
            ELSE seq_add_loop(res.h, s, i + 1,
                     [l1 EXCEPT !.added_seqs = @ + res.r,
                                !.current_seq_node = next_seq(res.h, l.current_seq_node, s[i]),
                                !.k = k],
                     F)

seq_add(h, s, F) ==
    IF s = NULL THEN [h |-> h, ret |-> -1, oom |-> FALSE, k |-> 0, errno |-> EINVAL]
    ELSE IF check_str_for_inval(s) = -1
    THEN [h |-> h, ret |-> -1, oom |-> FALSE, k |-> 0, errno |-> EINVAL]
    ELSE LET r == seq_add_loop(h, s, 1,
                      [first_added_seq |-> NULL, current_seq_node |-> Root,
                       second_to_last |-> Root, first_index |-> 1,
                       added_seqs |-> 0, k |-> 0], F)
         IN  [h |-> r.h, ret |-> r.ret, oom |-> r.oom, k |-> r.k,
              errno |-> IF r.ret = -1 THEN ENOMEM ELSE UNSET]

\* ----------------------------------------------------------- seq_remove
seq_remove_parent_root(h, s) == Root

\* the parent of the last node of the path: current_seq when i == length - 1
seq_remove_parent(h, s) == walk(h, Root, SubSeq(s, 1, Len(s) - 1), 1)

seq_remove_nearest(h, s) ==
    IF check_str_for_inval(s) = -1 THEN [h |-> h, ret |-> -1, errno |-> EINVAL]
    ELSE LET found == {i \in 1..Len(s) : walk(h, Root, SubSeq(s, 1, i), 1) # NULL}
             n == Cardinality(found)
         IN  IF n = 0 THEN [h |-> h, ret |-> 0, errno |-> UNSET]
             ELSE [h |-> detach(seq_remove_recur(h, SubSeq(s, 1, n)),
                                SubSeq(s, 1, n - 1), s[n]),
                   ret |-> IF n = Len(s) THEN 1 ELSE 0, errno |-> UNSET]

seq_remove(h, s) ==
    IF check_str_for_inval(s) = -1 THEN [h |-> h, ret |-> -1, errno |-> EINVAL]
    ELSE LET current_seq == walk(h, Root, s, 1)
         IN  IF current_seq = NULL THEN [h |-> h, ret |-> 0, errno |-> UNSET]
             ELSE [h |-> detach(seq_remove_recur(h, current_seq),
                                seq_remove_parent(h, s), s[Len(s)]),
                   ret |-> 1, errno |-> UNSET]

\* ------------------------------------------------------------ seq_valid
seq_valid(h, s) ==
    IF check_str_for_inval(s) = -1 THEN -1
    ELSE IF walk(h, Root, s, 1) = NULL THEN 0
    ELSE 1

\* ---------------------------------------------------------------- names
\* the malloc-counting accumulator threaded through a call:
\* h the heap, k mallocs made so far, oom some malloc failed, crash a fault
\* errno the last value the call assigned to errno
Acc(h) == [h |-> h, k |-> 0, errno |-> UNSET, oom |-> FALSE, crash |-> FALSE]

malloc_ok(a, F) == [a |-> [a EXCEPT !.k = @ + 1], ok |-> TRUE]

\* one malloc: the k-th of the call fails when k \in F
malloc(a, F) ==
    [a |-> [a EXCEPT !.k = @ + 1,
                     !.oom = @ \/ (a.k + 1) \in F],
     ok |-> (a.k + 1) \notin F]

strcpy_short(n) == [i \in 1..(Len(n) - 1) |-> n[i]]

\* the copy of a name into a fresh buffer
strcpy(n) == [i \in 1..Len(n) |-> n[i]]

replace_or_set_seq_name(a, p, n, F) ==
    IF p = NULL THEN [a |-> a, r |-> 0]
    ELSE LET m == malloc(a, F)
         IN  IF ~m.ok
             THEN [a |-> [m.a EXCEPT !.h.abstract_class_name[p] = NULLNAME,
                                     !.errno = ENOMEM],
                   r |-> -1]
             ELSE [a |-> [m.a EXCEPT !.h.abstract_class_name[p] = strcpy(n)],
                   r |-> 1]

\* what recur_seq_name returns for a node of the class being renamed
recur_seq_name_result(r) == IF r = 1 THEN 1 ELSE 0

recur_seq_name_match_any(p_abs, current_abs_class) == TRUE

\* the test of recur_seq_name that selects the nodes to rename
recur_seq_name_match(p_abs, current_abs_class) == p_abs = current_abs_class

RECURSIVE recur_seq_name(_, _, _, _, _)
recur_seq_name(a, p, n, current_abs_class, F) ==
    IF p = NULL THEN [a |-> a, r |-> 0]
    ELSE
        LET next_zero == recur_seq_name(a, a.h.next[p][0], n, current_abs_class, F)
            next_one == recur_seq_name(next_zero.a, a.h.next[p][1], n, current_abs_class, F)
            next_two == recur_seq_name(next_one.a, a.h.next[p][2], n, current_abs_class, F)
        IN  IF next_zero.r = -1 \/ next_one.r = -1 \/ next_two.r = -1
            THEN [a |-> next_two.a, r |-> -1]
            ELSE IF recur_seq_name_match(next_two.a.h.abstract_class[p], current_abs_class)
            THEN LET rr == replace_or_set_seq_name(next_two.a, p, n, F)
                 IN  [a |-> rr.a, r |-> recur_seq_name_result(rr.r)]
            ELSE [a |-> next_two.a, r |-> 1]

set_name_mint_none(amount) == [id |-> -1, amount |-> amount + 1]

set_name_mint_double(amount) == [id |-> amount + 2, amount |-> amount + 2]

set_name_mint_stale(amount) == [id |-> amount, amount |-> amount + 1]

\* the class id and counter value produced by the minting lines of seq_set_name
set_name_mint(amount) == [id |-> amount + 1, amount |-> amount + 1]

set_name_absent_assigned(a, amount) ==
    [a |-> a, ret |-> 1, amount |-> amount + 1, mint |-> <<amount + 1>>]

\* the return 0 of seq_set_name from inside its walk: the path is missing
set_name_absent(a, amount) ==
    [a |-> a, ret |-> 0, amount |-> amount, mint |-> <<>>]

\* result: a the accumulator, ret, amount the counter, mint the minted ids
seq_set_name(h, amount, s, n, F) ==
    LET a0 == Acc(h)
        inval == [a |-> [a0 EXCEPT !.errno = EINVAL], ret |-> -1,
                  amount |-> amount, mint |-> <<>>]
    IN  IF check_str_for_inval(s) = -1 THEN inval
        ELSE IF n = NULLNAME THEN inval
        ELSE IF Len(n) = 0 THEN inval
        ELSE
            LET current_seq == walk(h, Root, s, 1)
            IN  IF current_seq = NULL
                THEN set_name_absent(a0, amount)
                ELSE IF h.abstract_class[current_seq] = -1
                THEN LET m == malloc(a0, F)
                     IN  IF ~m.ok
                         THEN [a |-> [m.a EXCEPT !.h.abstract_class_name[current_seq] = NULLNAME,
                                                 !.errno = ENOMEM],
                               ret |-> -1, amount |-> amount, mint |-> <<>>]
                         ELSE LET mt == set_name_mint(amount)
                              IN  [a |-> [m.a EXCEPT !.h.abstract_class_name[current_seq] = strcpy(n),
                                                     !.h.abstract_class[current_seq] = mt.id],
                                   ret |-> 1, amount |-> mt.amount, mint |-> <<mt.id>>]
                ELSE LET current_name == h.abstract_class_name[current_seq]
                     IN  IF current_name # NULLNAME /\ n = current_name
                         THEN [a |-> a0, ret |-> 0, amount |-> amount, mint |-> <<>>]
                         ELSE LET rr == recur_seq_name(a0, Root, n,
                                            h.abstract_class[current_seq], F)
                              IN  [a |-> rr.a, ret |-> rr.r, amount |-> amount,
                                   mint |-> <<>>]

\* result: the returned pointer and the value of errno
seq_get_name(h, s) ==
    IF check_str_for_inval(s) = -1 THEN [name |-> NULLNAME, errno |-> EINVAL]
    ELSE LET current_seq == walk(h, Root, s, 1)
         IN  IF current_seq = NULL THEN [name |-> NULLNAME, errno |-> ENONE]
             ELSE IF h.abstract_class_name[current_seq] = NULLNAME
             THEN [name |-> NULLNAME, errno |-> ENONE]
             ELSE [name |-> h.abstract_class_name[current_seq], errno |-> UNSET]

\* ---------------------------------------------------------------- merge
singular_name(a, n, F) ==
    LET m == malloc(a, F)
    IN  IF ~m.ok THEN [a |-> [m.a EXCEPT !.errno = ENOMEM], v |-> NULLNAME]
        ELSE [a |-> m.a, v |-> strcpy(n)]

merge_names_text_swapped(n1, n2) ==
    IF n1 # NULLNAME /\ n2 # NULLNAME THEN n2 \o n1
    ELSE IF n1 # NULLNAME THEN n1
    ELSE IF n2 # NULLNAME THEN n2
    ELSE <<>>

\* the text merge_names builds in its buffer
merge_names_text(n1, n2) ==
    IF n1 # NULLNAME /\ n2 # NULLNAME THEN n1 \o n2
    ELSE IF n1 # NULLNAME THEN strcpy(n1)
    ELSE IF n2 # NULLNAME THEN strcpy(n2)
    ELSE <<>>

merge_names(a, n1, n2, F) ==
    LET m == malloc(a, F)
    IN  IF ~m.ok THEN [a |-> [m.a EXCEPT !.errno = ENOMEM], v |-> NULLNAME]
        ELSE [a |-> m.a, v |-> merge_names_text(n1, n2)]

\* first test of node_change, (n1 && !n2) || !strcmp(n1, n2), reads through
\* n1 when n1 is null and n2 is not: undefined behaviour
node_change_faults(n1, n2) == n1 = NULLNAME /\ n2 # NULLNAME

\* which of the three naming branches node_change takes (n1, n2 not both null);
\* after the faulting strcmp the build either continues with n2 or is killed
node_change_branch(n1, n2) ==
    IF n1 # NULLNAME /\ n2 = NULLNAME THEN "n1"
    ELSE IF n1 = NULLNAME /\ n2 # NULLNAME THEN "n2"
    ELSE IF n1 = n2 THEN "n1"
    ELSE "merge"

\* ub: what the undefined strcmp(NULL, n2) does, "crash" or "continue"
node_change(a, p, n1, n2, abs_class_val, F, ub) ==
    IF p = NULL \/ a.crash THEN [a |-> a, r |-> 0]
    ELSE
        LET a1 == [a EXCEPT !.h.abstract_class_name[p] = NULLNAME,
                            !.h.abstract_class[p] = abs_class_val]
        IN  IF n1 = NULLNAME /\ n2 = NULLNAME THEN [a |-> a1, r |-> 1]
            ELSE IF node_change_faults(n1, n2) /\ ub = "crash"
            THEN [a |-> [a1 EXCEPT !.crash = TRUE], r |-> 0]
            ELSE
                LET b == node_change_branch(n1, n2)
                    nm == IF b = "n1" THEN singular_name(a1, n1, F)
                          ELSE IF b = "n2" THEN singular_name(a1, n2, F)
                          ELSE merge_names(a1, n1, n2, F)
                IN  [a |-> [nm.a EXCEPT !.h.abstract_class_name[p] = nm.v],
                     r |-> IF nm.v = NULLNAME THEN -1 ELSE 1]

recur_equiv_match_unclassed(p_abs, abs_class_1, abs_class_2) ==
    p_abs = abs_class_1 \/ p_abs = abs_class_2

recur_equiv_match_first(p_abs, abs_class_1, abs_class_2) ==
    p_abs # -1 /\ p_abs = abs_class_1

\* the test of recur_equiv that selects the nodes to migrate
recur_equiv_match(p_abs, abs_class_1, abs_class_2) ==
    p_abs # -1 /\ (p_abs = abs_class_1 \/ p_abs = abs_class_2)

RECURSIVE recur_equiv(_, _, _, _, _, _, _, _, _)
recur_equiv(a, p, abs_class_1, abs_class_2, abs_class_n, name_1, name_2, F, ub) ==
    IF p = NULL \/ a.crash THEN [a |-> a, r |-> 0]
    ELSE
        LET p_abs == a.h.abstract_class[p]
            result_zero == recur_equiv(a, a.h.next[p][0], abs_class_1, abs_class_2,
                                       abs_class_n, name_1, name_2, F, ub)
            result_one == recur_equiv(result_zero.a, a.h.next[p][1], abs_class_1,
                                      abs_class_2, abs_class_n, name_1, name_2, F, ub)
            result_two == recur_equiv(result_one.a, a.h.next[p][2], abs_class_1,
                                      abs_class_2, abs_class_n, name_1, name_2, F, ub)
        IN  IF result_one.r = -1 \/ result_two.r = -1 \/ result_zero.r = -1
            THEN [a |-> result_two.a, r |-> -1]
            ELSE IF recur_equiv_match(p_abs, abs_class_1, abs_class_2)
            THEN node_change(result_two.a, p, name_1, name_2, abs_class_n, F, ub)
            ELSE [a |-> result_two.a, r |-> 0]

equiv_mint_same(amount) == [id |-> amount, amount |-> amount + 1]

equiv_mint_unconsumed(amount) == [id |-> amount + 1, amount |-> amount]

equiv_mint_ahead(amount) == [id |-> amount + 2, amount |-> amount + 1]

\* the class id and counter value produced by the minting lines of seq_equiv
equiv_mint(amount) == [id |-> amount + 1, amount |-> amount + 1]

\* the defensive copy of an endpoint's name; null stays null, no malloc
equiv_snapshot(a, nm, F) ==
    IF nm = NULLNAME THEN [a |-> a, v |-> NULLNAME, ok |-> TRUE]
    ELSE LET m == malloc(a, F)
         IN  IF ~m.ok THEN [a |-> [m.a EXCEPT !.errno = ENOMEM], v |-> NULLNAME, ok |-> FALSE]
             ELSE [a |-> m.a, v |-> strcpy(nm), ok |-> TRUE]

seq_equiv_result_first(zero_seqs, one_seqs, two_seqs) ==
    IF zero_seqs # -1 THEN 1 ELSE -1

\* the value seq_equiv returns after the three scans
seq_equiv_result(zero_seqs, one_seqs, two_seqs) ==
    IF zero_seqs # -1 /\ one_seqs # -1 /\ two_seqs # -1 THEN 1 ELSE -1

\* the part of seq_equiv after both endpoints were found in different classes
seq_equiv_merge(h, amount, current_seq_1, current_seq_2, F, ub) ==
    LET abs_class_1 == h.abstract_class[current_seq_1]
        abs_class_2 == h.abstract_class[current_seq_2]
        mt == equiv_mint(amount)
        abs_class_n == mt.id
        a0 == [Acc(h) EXCEPT !.h.abstract_class[current_seq_1] = abs_class_n,
                             !.h.abstract_class[current_seq_2] = abs_class_n]
        s1 == equiv_snapshot(a0, a0.h.abstract_class_name[current_seq_1], F)
        s2 == equiv_snapshot(s1.a, s1.a.h.abstract_class_name[current_seq_2], F)
        c1 == node_change(s2.a, current_seq_1, s1.v, s2.v, abs_class_n, F, ub)
        c2 == node_change(c1.a, current_seq_2, s1.v, s2.v, abs_class_n, F, ub)
        zero_seqs == recur_equiv(c2.a, c2.a.h.next[Root][0], abs_class_1, abs_class_2,
                                 abs_class_n, s1.v, s2.v, F, ub)
        one_seqs == recur_equiv(zero_seqs.a, zero_seqs.a.h.next[Root][1], abs_class_1,
                                abs_class_2, abs_class_n, s1.v, s2.v, F, ub)
        two_seqs == recur_equiv(one_seqs.a, one_seqs.a.h.next[Root][2], abs_class_1,
                                abs_class_2, abs_class_n, s1.v, s2.v, F, ub)
        out(a, ret) == [a |-> a, ret |-> ret, amount |-> mt.amount, mint |-> <<mt.id>>]
    IN  IF ~s1.ok THEN out(s1.a, -1)
        ELSE IF ~s2.ok THEN out(s2.a, -1)
        ELSE IF c1.a.crash THEN out(c1.a, -1)
        ELSE IF c1.r = -1 THEN out(c1.a, -1)
        ELSE IF c2.a.crash THEN out(c2.a, -1)
        ELSE IF c2.r = -1 THEN out(c2.a, -1)
        ELSE IF two_seqs.a.crash THEN out(two_seqs.a, -1)
        ELSE out(two_seqs.a, seq_equiv_result(zero_seqs.r, one_seqs.r, two_seqs.r))

seq_equiv_same_class_never(abs_class_1, abs_class_2) == FALSE

\* the test for endpoints that are in one class already
seq_equiv_same_class(abs_class_1, abs_class_2) ==
    abs_class_1 # -1 /\ abs_class_1 = abs_class_2

\* alias: s1 and s2 are the same pointer (the test s1 == s2)
seq_equiv(h, amount, s1, s2, alias, F, ub) ==
    LET a0 == Acc(h)
        inval == [a |-> [a0 EXCEPT !.errno = EINVAL], ret |-> -1,
                  amount |-> amount, mint |-> <<>>]
        nothing == [a |-> a0, ret |-> 0, amount |-> amount, mint |-> <<>>]
    IN  IF s1 = NULL \/ s2 = NULL THEN inval
        ELSE IF check_str_for_inval(s1) = -1 THEN inval
        ELSE IF check_str_for_inval(s2) = -1 THEN inval
        ELSE IF alias THEN nothing
        ELSE
            LET current_seq_1 == walk(h, Root, s1, 1)
                current_seq_2 == walk(h, Root, s2, 1)
            IN  IF current_seq_1 = NULL THEN nothing
                ELSE IF current_seq_2 = NULL THEN nothing
                ELSE IF seq_equiv_same_class(h.abstract_class[current_seq_1],
                                             h.abstract_class[current_seq_2])
                THEN nothing
                ELSE seq_equiv_merge(h, amount, current_seq_1, current_seq_2, F, ub)

\* ---------------------------------------------------------------- state
\* the record of a call: op the operation, ret its int result, name the
\* pointer returned by seq_get_name, errno the last value the call assigned
\* to errno, oom whether one of its malloc calls failed, k the malloc calls
\* it made
NoCall == [op |-> "none", ret |-> 0, name |-> NULLNAME, errno |-> UNSET,
           oom |-> FALSE, k |-> 0]

\* `last` keeps the record of the latest call when its operation is one of
\* those under observation (obs), and NoCall after any other call
Observe(obs, rec) == IF rec.op \in obs THEN rec ELSE NoCall

\* the entries a call adds to minted_by: its name for each id it minted
MintedBy(obs, mint, op) ==
    IF "mint" \in obs THEN [i \in 1..Len(mint) |-> op] ELSE <<>>

Ops == {"seq_add", "seq_remove", "seq_valid", "seq_set_name", "seq_get_name",
        "seq_equiv"}

Init ==
    /\ allocated = {Root}
    /\ next = [a \in Addr |-> NoChildren]
    /\ abstract_class = [a \in Addr |-> -1]
    /\ abstract_class_name = [a \in Addr |-> NULLNAME]
    /\ abstract_classes_amount = 0
    /\ crashed = FALSE
    /\ last = NoCall
    /\ minted = <<>>
    /\ minted_by = <<>>

SetHeap(h) ==
    /\ allocated' = h.allocated
    /\ next' = h.next
    /\ abstract_class' = h.abstract_class
    /\ abstract_class_name' = h.abstract_class_name

\* nodes the call would have to create
Missing(s) == {i \in 1..Len(s) : walk(Heap, Root, SubSeq(s, 1, i), 1) = NULL}

\* seq_add(p, s) with the allocator failing at the calls in F
AddCall(obs, s, F) ==
    /\ ~crashed
    /\ check_str_for_inval(s) = 0 =>
           Cardinality(allocated) - 1 + Cardinality(Missing(s)) <= MaxNodes
    /\ \E r \in {seq_add(Heap, s, F)} :
           /\ SetHeap(r.h)
           /\ last' = Observe(obs, [NoCall EXCEPT !.op = "seq_add", !.ret = r.ret,
                                       !.errno = r.errno, !.oom = r.oom, !.k = r.k])
    /\ UNCHANGED <<abstract_classes_amount, crashed, minted, minted_by>>

SeqAdd(obs, failing) ==
    \E s \in InSeqs :
        \E F \in IF failing THEN FailSets(seq_add(Heap, s, {}).k) ELSE {{}} :
            AddCall(obs, s, F)

RemoveCall(obs, s) ==
    /\ ~crashed
    /\ \E r \in {seq_remove(Heap, s)} :
           /\ SetHeap(r.h)
           /\ last' = Observe(obs, [NoCall EXCEPT !.op = "seq_remove", !.ret = r.ret,
                                       !.errno = r.errno])
    /\ UNCHANGED <<abstract_classes_amount, crashed, minted, minted_by>>

SeqRemove(obs) == \E s \in InSeqs : RemoveCall(obs, s)

ValidCall(obs, s) ==
    /\ ~crashed
    /\ last' = Observe(obs, [NoCall EXCEPT !.op = "seq_valid",
                                !.ret = seq_valid(Heap, s),
                                !.errno = IF check_str_for_inval(s) = -1
                                          THEN EINVAL ELSE UNSET])
    /\ UNCHANGED <<allocated, next, abstract_class, abstract_class_name,
                   abstract_classes_amount, crashed, minted, minted_by>>

SeqValid(obs) == \E s \in InSeqs : ValidCall(obs, s)

SetNameCall(obs, s, n, F) ==
    /\ ~crashed
    /\ \E r \in {seq_set_name(Heap, abstract_classes_amount, s, n, F)} :
           /\ r.amount <= MaxClasses
           /\ SetHeap(r.a.h)
           /\ abstract_classes_amount' = r.amount
           /\ minted' = minted \o r.mint
           /\ minted_by' = minted_by \o MintedBy(obs, r.mint, "seq_set_name")
           /\ last' = Observe(obs, [NoCall EXCEPT !.op = "seq_set_name", !.ret = r.ret,
                                       !.errno = r.a.errno, !.oom = r.a.oom,
                                       !.k = r.a.k])
    /\ UNCHANGED crashed

\* an invalid sequence is rejected before the name is looked at: one name then
SeqSetName(obs, failing) ==
    \E s \in InSeqs :
      \E n \in IF s \in ValidSeqs THEN InNames ELSE {<<"A">>} :
        \E F \in IF failing
                 THEN FailSets(seq_set_name(Heap, abstract_classes_amount, s, n, {}).a.k)
                 ELSE {{}} :
            SetNameCall(obs, s, n, F)

GetNameCall(obs, s) ==
    /\ ~crashed
    /\ \E r \in {seq_get_name(Heap, s)} :
           last' = Observe(obs, [NoCall EXCEPT !.op = "seq_get_name", !.name = r.name,
                                    !.errno = r.errno])
    /\ UNCHANGED <<allocated, next, abstract_class, abstract_class_name,
                   abstract_classes_amount, crashed, minted, minted_by>>

SeqGetName(obs) == \E s \in InSeqs : GetNameCall(obs, s)

\* the node a valid sequence leads to, NULL when it is invalid or absent
Node(h, s) ==
    IF check_str_for_inval(s) = 0 THEN walk(h, Root, s, 1) ELSE NULL

\* the name an endpoint carries, NULLNAME when the path is missing
EndName(s) ==
    IF Node(Heap, s) # NULL THEN abstract_class_name[Node(Heap, s)] ELSE NULLNAME

\* bound on the names: a merge that concatenates stays within MaxNameLen
NameFits(s1, s2) ==
    (EndName(s1) # NULLNAME /\ EndName(s2) # NULLNAME /\ EndName(s1) # EndName(s2))
        => Len(EndName(s1)) + Len(EndName(s2)) <= MaxNameLen

EquivCall(obs, s1, s2, alias, F, ub) ==
    /\ ~crashed
    /\ alias => s1 = s2
    /\ NameFits(s1, s2)
    /\ \E r \in {seq_equiv(Heap, abstract_classes_amount, s1, s2, alias, F, ub)} :
           /\ r.amount <= MaxClasses
           /\ SetHeap(r.a.h)
           /\ abstract_classes_amount' = r.amount
           /\ minted' = minted \o r.mint
           /\ minted_by' = minted_by \o MintedBy(obs, r.mint, "seq_equiv")
           /\ crashed' = r.a.crash
           /\ last' = Observe(obs, [NoCall EXCEPT !.op = "seq_equiv", !.ret = r.ret,
                                       !.errno = r.a.errno, !.oom = r.a.oom,
                                       !.k = r.a.k])

\* the outcomes of the undefined strcmp matter only to a call that reaches it
UbChoices(s1, s2) ==
    IF node_change_faults(EndName(s1), EndName(s2))
    THEN {"crash", "continue"} ELSE {"continue"}

\* an invalid argument is paired with one valid sequence, in either position
EquivInputs ==
    (ValidSeqs \X ValidSeqs) \cup (InvalidSeqs \X {<<0>>}) \cup ({<<0>>} \X InvalidSeqs)

SeqEquiv(obs, failing) ==
    \E in \in EquivInputs :
        \E alias \in IF in[1] = in[2] THEN BOOLEAN ELSE {FALSE},
           ub \in UbChoices(in[1], in[2]) :
            \E F \in IF failing
                     THEN FailSets(seq_equiv(Heap, abstract_classes_amount, in[1], in[2],
                                             alias, {}, "continue").a.k)
                     ELSE {{}} :
                EquivCall(obs, in[1], in[2], alias, F, ub)

\* any call; obs the operations under observation, failing whether the
\* allocator may fail
Next(obs, failing) ==
    \/ SeqAdd(obs, failing)
    \/ SeqRemove(obs)
    \/ SeqValid(obs)
    \/ SeqSetName(obs, failing)
    \/ SeqGetName(obs)
    \/ SeqEquiv(obs, failing)

\* every call, the allocator failing at will, no call observed
Spec == Init /\ [][Next({}, TRUE)]_vars
\* the same with the calls of one operation observed
SpecAdd == Init /\ [][Next({"seq_add"}, TRUE)]_vars
SpecRemove == Init /\ [][Next({"seq_remove"}, TRUE)]_vars
SpecSetName == Init /\ [][Next({"seq_set_name"}, TRUE)]_vars
SpecEquiv == Init /\ [][Next({"seq_equiv"}, TRUE)]_vars
\* every call, the allocator never failing
SpecNoFail == Init /\ [][Next({}, FALSE)]_vars
\* every call, the allocator failing at will, the minting calls recorded
SpecMint == Init /\ [][Next({"mint"}, TRUE)]_vars
\* ------------------------------------------------------------ properties
HeapNext == [allocated |-> allocated', next |-> next',
             abstract_class |-> abstract_class',
             abstract_class_name |-> abstract_class_name']

StoreUnchanged ==
    /\ HeapNext = Heap
    /\ abstract_classes_amount' = abstract_classes_amount

Prefixes(s) == {SubSeq(s, 1, i) : i \in 1..Len(s)}
IsPrefix(s, t) == Len(s) <= Len(t) /\ SubSeq(t, 1, Len(s)) = s
Sequences3 == AllSeqs \ {<<>>}

\* what the store tells about a sequence: presence, class id, display name
Info(h, s) ==
    IF seq_valid(h, s) = 1
    THEN [present |-> TRUE, class |-> h.abstract_class[Node(h, s)],
          name |-> seq_get_name(h, s).name]
    ELSE [present |-> FALSE, class |-> -1, name |-> NULLNAME]

\* C1: whenever seq_valid finds a sequence, it finds every non-empty prefix
\* of it, and each of them ends at a live node of the tree (the links that
\* seq_valid follows never lead into freed memory), after any calls,
\* failed insertions included.
C1_PrefixClosure ==
    \A s \in Sequences3 :
        seq_valid(Heap, s) = 1 =>
            \A q \in Prefixes(s) :
                seq_valid(Heap, q) = 1 /\ Node(Heap, q) \in allocated

\* a two-symbol sequence is present right after an insertion failed on allocation
C1_Witness ==
    /\ last.op = "seq_add" /\ last.oom
    /\ \E s \in ValidSeqs : Len(s) = 2 /\ seq_valid(Heap, s) = 1

\* C2: an insertion that fails on allocation returns -1 with ENOMEM and
\* leaves the store as it was: the same live nodes and links (so none of
\* the nodes it created is left), the same class ids and names, the same
\* counter.
C2_InsertOomRestores ==
    [][(last'.op = "seq_add" /\ last'.oom) =>
          /\ last'.ret = -1
          /\ last'.errno = ENOMEM
          /\ StoreUnchanged]_vars

\* the second allocation of an insertion failed, after the first had made a
\* node, in a store that holds a classed node
C2_Witness ==
    /\ last.op = "seq_add" /\ last.oom /\ last.k = 2
    /\ \E a \in allocated : abstract_class[a] # -1

\* C3: without allocation failure, inserting a valid sequence returns 1
\* exactly when it was absent and 0 exactly when it was present; a call
\* returning 0 changes nothing; and inserting the same sequence again
\* returns 0 and changes nothing.
C3_InsertResult ==
    [][(last'.op = "seq_add" /\ ~last'.oom /\ last'.errno # EINVAL) =>
          \A s \in ValidSeqs :
              AddCall({"seq_add"}, s, {}) =>
                  /\ last'.ret = 1 <=> seq_valid(Heap, s) = 0
                  /\ last'.ret = 0 <=> seq_valid(Heap, s) = 1
                  /\ last'.ret = 0 => StoreUnchanged
                  /\ seq_add(HeapNext, s, {}).ret = 0
                  /\ seq_add(HeapNext, s, {}).h = HeapNext]_vars

\* an insertion found its sequence already there, two symbols deep
C3_Witness ==
    /\ last.op = "seq_add" /\ last.ret = 0 /\ last.errno = UNSET
    /\ \E s \in ValidSeqs : Len(s) = 2 /\ seq_valid(Heap, s) = 1

\* C4: when seq_remove returns 1 for s, s and every sequence with prefix s
\* are absent afterwards, and every other sequence has the presence, class
\* id and name it had before.
C4_RemoveCascade ==
    [][(last'.op = "seq_remove" /\ last'.ret = 1) =>
          \A s \in ValidSeqs :
              RemoveCall({"seq_remove"}, s) =>
                  \A t \in Sequences3 :
                      IF IsPrefix(s, t)
                      THEN seq_valid(HeapNext, t) = 0
                      ELSE Info(HeapNext, t) = Info(Heap, t)]_vars

\* a removal succeeded and left a named node of some class behind
C4_Witness ==
    /\ last.op = "seq_remove" /\ last.ret = 1
    /\ \E a \in allocated : abstract_class[a] # -1 /\ abstract_class_name[a] # NULLNAME
\* the valid, non-empty names a caller passes
GoodNames == {n \in InNames : n # NULLNAME /\ Len(n) > 0}

\* both sequences are present and seq_equiv goes on to merge their classes
Merges(s1, s2) ==
    /\ Node(Heap, s1) # NULL /\ Node(Heap, s2) # NULL
    /\ ~(abstract_class[Node(Heap, s1)] # -1
         /\ abstract_class[Node(Heap, s1)] = abstract_class[Node(Heap, s2)])

\* C5: a merge of two present sequences of which exactly one has a name
\* completes (the process is not terminated), returns 1, and leaves both
\* endpoints with that name, whichever argument the named one is.
C5_OneNamedMerge ==
    [][last'.op = "seq_equiv" =>
          \A s1 \in ValidSeqs, s2 \in ValidSeqs, ub \in {"crash", "continue"} :
              (/\ EquivCall({"seq_equiv"}, s1, s2, FALSE, {}, ub)
               /\ Merges(s1, s2)
               /\ (EndName(s1) = NULLNAME) # (EndName(s2) = NULLNAME))
              => LET n == IF EndName(s1) # NULLNAME THEN EndName(s1) ELSE EndName(s2)
                 IN  /\ ~crashed'
                     /\ last'.ret = 1
                     /\ seq_get_name(HeapNext, s1).name = n
                     /\ seq_get_name(HeapNext, s2).name = n]_vars

\* the name the merged class gets when the endpoints are both unnamed, have
\* the same name, or have different names
CombinedName(n1, n2) ==
    IF n1 = NULLNAME /\ n2 = NULLNAME THEN NULLNAME
    ELSE IF n1 = n2 THEN n1
    ELSE n1 \o n2

\* C6: in every reachable store, a merge of two endpoints in different
\* classes, without allocation failure, returns 1 and leaves both endpoints
\* unnamed when neither had a name, with the common name when both had the
\* same name, and with the name of s1 followed by the name of s2 when the
\* names differ.
C6_MergeNames ==
    \A s1 \in ValidSeqs, s2 \in ValidSeqs :
        (/\ ~crashed
         /\ Merges(s1, s2)
         /\ (EndName(s1) = NULLNAME) = (EndName(s2) = NULLNAME))
        => \E r \in {seq_equiv(Heap, abstract_classes_amount, s1, s2, FALSE, {},
                               "continue")} :
               /\ r.ret = 1
               /\ seq_get_name(r.a.h, s1).name = CombinedName(EndName(s1), EndName(s2))
               /\ seq_get_name(r.a.h, s2).name = CombinedName(EndName(s1), EndName(s2))

\* a merge returned 1 and two nodes of its class carry the concatenation "AB"
C6_Witness ==
    /\ last.op = "seq_equiv" /\ last.ret = 1
    /\ \E a \in allocated, b \in allocated :
           /\ a # b
           /\ abstract_class[a] = abstract_classes_amount
           /\ abstract_class[b] = abstract_classes_amount
           /\ abstract_class_name[a] = <<"A", "B">>
           /\ abstract_class_name[b] = <<"A", "B">>

\* the nodes of class c
Members(h, c) == {a \in h.allocated : h.abstract_class[a] = c}

\* C7: when seq_equiv returns 1 no allocation failed in it, no node carries
\* a prior class id of the endpoints any more, and the nodes of the new id
\* are the two endpoints and the nodes that carried a prior (non-none) id.
C7_MergeMembers ==
    [][(last'.op = "seq_equiv" /\ last'.ret = 1) =>
          /\ ~last'.oom
          /\ \A s1 \in ValidSeqs, s2 \in ValidSeqs, ub \in {"crash", "continue"} :
                 EquivCall({"seq_equiv"}, s1, s2, FALSE, {}, ub) =>
                     LET e1 == Node(Heap, s1)
                         e2 == Node(Heap, s2)
                         old == {abstract_class[e1], abstract_class[e2]} \ {-1}
                         new == abstract_class'[e1]
                     IN  /\ new = abstract_classes_amount'
                         /\ new \notin old
                         /\ \A a \in allocated' : abstract_class'[a] \notin old
                         /\ Members(HeapNext, new) =
                                {e1, e2} \cup {a \in allocated : abstract_class[a] \in old}]_vars

\* a merge returned 1 and a third node was moved into the new class
C7_Witness ==
    /\ last.op = "seq_equiv" /\ last.ret = 1
    /\ Cardinality(Members(Heap, abstract_classes_amount)) = 3

\* C8: when seq_set_name returns 1 for a sequence whose node already had a
\* class, every node of that class has the new name afterwards, and every
\* other node keeps the name it had.
C8_RenameBroadcast ==
    [][(last'.op = "seq_set_name" /\ last'.ret = 1) =>
          \A s \in ValidSeqs, n \in GoodNames, F \in FailSets(MaxNodes) :
              (/\ SetNameCall({"seq_set_name"}, s, n, F)
               /\ Node(Heap, s) # NULL
               /\ abstract_class[Node(Heap, s)] # -1)
              => \A a \in allocated :
                     IF abstract_class[a] = abstract_class[Node(Heap, s)]
                     THEN abstract_class_name'[a] = n
                     ELSE abstract_class_name'[a] = abstract_class_name[a]]_vars

\* C9: when no call suffered an allocation failure, any two nodes of the
\* same class have the same display name (while the process is running).
C9_ClassNameShared ==
    ~crashed =>
        \A a \in allocated, b \in allocated :
            (abstract_class[a] # -1 /\ abstract_class[a] = abstract_class[b])
                => abstract_class_name[a] = abstract_class_name[b]

\* three nodes form one named class
C9_Witness ==
    /\ ~crashed
    /\ \E c \in 1..MaxClasses :
           /\ Cardinality(Members(Heap, c)) = 3
           /\ \A a \in Members(Heap, c) : abstract_class_name[a] # NULLNAME

\* C10: the class ids minted by seq_set_name and seq_equiv are pairwise
\* different, whatever calls come between them.
C10_IdsNeverReused ==
    \A i \in 1..Len(minted), j \in 1..Len(minted) :
        i # j => minted[i] # minted[j]

\* ids were minted up to the cap and one of them is on no node any more
C10_Witness ==
    /\ Len(minted) = MaxClasses
    /\ \E i \in 1..Len(minted) : Members(Heap, minted[i]) = {}
    /\ \E a \in allocated : abstract_class[a] = minted[Len(minted)]

\* the sequence is present and its node carries a class
Classed(s) == Node(Heap, s) # NULL /\ abstract_class[Node(Heap, s)] # -1

\* the first of the failing malloc calls
FirstFailure(F) == CHOOSE k \in F : \A j \in F : k <= j

\* C11: when a malloc fails while seq_set_name renames the nodes of a class,
\* the call returns -1 with ENOMEM and makes no further malloc call (the
\* scan stops at the failure).
C11_RenameOomReported ==
    \A s \in ValidSeqs, n \in GoodNames, F \in FailSets(MaxNodes) \ {{}} :
        (~crashed /\ Classed(s)) =>
            \E r \in {seq_set_name(Heap, abstract_classes_amount, s, n, F)} :
                r.a.oom =>
                    /\ r.ret = -1
                    /\ r.a.errno = ENOMEM
                    /\ r.a.k = FirstFailure(F)

\* C12: seq_get_name answers differently for a present sequence without a
\* name and for an absent sequence: the returned pointer or the value of
\* errno tells the two apart.
C12_NoNameDistinct ==
    \A s \in ValidSeqs, t \in ValidSeqs :
        (/\ ~crashed
         /\ seq_valid(Heap, s) = 1
         /\ abstract_class_name[Node(Heap, s)] = NULLNAME
         /\ seq_valid(Heap, t) = 0)
        => seq_get_name(Heap, s) # seq_get_name(Heap, t)

\* C13: in every reachable store, for a present sequence s and a non-empty
\* name n, seq_set_name(s, n) without allocation failure leaves a store in
\* which seq_get_name(s) returns n, whether the node of s had no class, a
\* class without a name, or a class with a name (the same or another).
C13_NameRoundTrip ==
    \A s \in ValidSeqs, n \in GoodNames :
        (~crashed /\ seq_valid(Heap, s) = 1) =>
            \E r \in {seq_set_name(Heap, abstract_classes_amount, s, n, {})} :
                /\ r.ret \in {0, 1}
                /\ r.ret = 0 => seq_get_name(Heap, s).name = n
                /\ seq_get_name(r.a.h, s).name = n
                /\ seq_get_name(r.a.h, s).errno = UNSET

\* a rename without allocation failure gave two nodes of one class their
\* new name, and seq_get_name returns it for both
C13_Witness ==
    /\ last.op = "seq_set_name" /\ last.ret = 1 /\ ~last.oom /\ last.k = 2
    /\ \E s \in ValidSeqs, t \in ValidSeqs :
           /\ s # t
           /\ Classed(s) /\ Classed(t)
           /\ abstract_class[Node(Heap, s)] = abstract_class[Node(Heap, t)]
           /\ seq_get_name(Heap, s).name # NULLNAME
           /\ seq_get_name(Heap, s).name = seq_get_name(Heap, t).name

\* the store a call leaves: heap and counter
Store(h, amount) == [h |-> h, amount |-> amount]

\* C14: in every reachable store, seq_equiv(s1, s2) on two present sequences
\* of different classes, without allocation failure, completes and returns
\* 1, and the same call made again returns 0 and leaves class ids, names and
\* counter as the first call left them.
C14_MergeTwice ==
    \A s1 \in ValidSeqs, s2 \in ValidSeqs, ub \in {"crash", "continue"} :
        (~crashed /\ Merges(s1, s2) /\ ub \in UbChoices(s1, s2)) =>
            \E r1 \in {seq_equiv(Heap, abstract_classes_amount, s1, s2, FALSE, {}, ub)} :
                /\ ~r1.a.crash
                /\ r1.ret = 1
                /\ \E r2 \in {seq_equiv(r1.a.h, r1.amount, s1, s2, FALSE, {}, ub)} :
                       /\ r2.ret = 0
                       /\ Store(r2.a.h, r2.amount) = Store(r1.a.h, r1.amount)

\* C15: in every reachable store, seq_equiv returns 0 and changes no class
\* id, no name and not the counter when one of the two sequences is absent
\* and when both endpoints carry the same class id other than -1, whatever
\* the allocator would do.
C15_MergeNoMutation ==
    \A s1 \in ValidSeqs, s2 \in ValidSeqs, F \in FailSets(1) :
        (/\ ~crashed
         /\ \/ seq_valid(Heap, s1) = 0
            \/ seq_valid(Heap, s2) = 0
            \/ (Classed(s1) /\ Classed(s2)
                /\ abstract_class[Node(Heap, s1)] = abstract_class[Node(Heap, s2)]))
        => \E r \in {seq_equiv(Heap, abstract_classes_amount, s1, s2, FALSE, F, "continue")} :
               /\ r.ret = 0
               /\ r.a.k = 0
               /\ Store(r.a.h, r.amount) = Store(Heap, abstract_classes_amount)

\* a merge call returned 0 in a store where two different nodes are in one
\* class and some sequence is absent
C15_Witness ==
    /\ last.op = "seq_equiv" /\ last.ret = 0 /\ last.errno = UNSET
    /\ \E a \in allocated, b \in allocated :
           a # b /\ abstract_class[a] # -1 /\ abstract_class[a] = abstract_class[b]
    /\ \E s \in ValidSeqs : seq_valid(Heap, s) = 0

\* the outcome InvalidArgument of a call that returns an int, store unchanged
Rejected(ret, errno, h, amount) ==
    /\ ret = -1
    /\ errno = EINVAL
    /\ Store(h, amount) = Store(Heap, abstract_classes_amount)

\* C16: in every reachable store, each operation given an empty sequence, a
\* sequence with a symbol outside 0, 1, 2 (or a null sequence) returns its
\* error value with errno = EINVAL and leaves nodes, class ids, names and
\* counter unchanged; so does seq_set_name given an empty (or null) name.
C16_InvalidRejected ==
    ~crashed =>
        /\ \A s \in InvalidSeqs :
               /\ \A F \in FailSets(1) :
                      \E r \in {seq_add(Heap, s, F)} :
                          Rejected(r.ret, r.errno, r.h, abstract_classes_amount)
               /\ \E r \in {seq_remove(Heap, s)} :
                      Rejected(r.ret, r.errno, r.h, abstract_classes_amount)
               /\ seq_valid(Heap, s) = -1
               /\ \A n \in InNames, F \in FailSets(1) :
                      \E r \in {seq_set_name(Heap, abstract_classes_amount, s, n, F)} :
                          Rejected(r.ret, r.a.errno, r.a.h, r.amount)
               /\ seq_get_name(Heap, s) = [name |-> NULLNAME, errno |-> EINVAL]
               /\ \A t \in InSeqs, F \in FailSets(1) :
                      /\ \E r \in {seq_equiv(Heap, abstract_classes_amount, s, t, FALSE,
                                             F, "continue")} :
                             Rejected(r.ret, r.a.errno, r.a.h, r.amount)
                      /\ \E r \in {seq_equiv(Heap, abstract_classes_amount, t, s, FALSE,
                                             F, "continue")} :
                             Rejected(r.ret, r.a.errno, r.a.h, r.amount)
        /\ \A s \in ValidSeqs, n \in {<<>>, NULLNAME}, F \in FailSets(1) :
               \E r \in {seq_set_name(Heap, abstract_classes_amount, s, n, F)} :
                   Rejected(r.ret, r.a.errno, r.a.h, r.amount)

\* seq_set_name rejected its arguments in a store that holds a named class
C16_Witness ==
    /\ last.op = "seq_set_name" /\ last.ret = -1 /\ last.errno = EINVAL
    /\ \E a \in allocated : abstract_class[a] # -1 /\ abstract_class_name[a] # NULLNAME

\* C17: in every reachable store, when a malloc fails in a seq_equiv that
\* merges two classes (in a snapshot, in a node's new name, during the
\* migration scans), the call returns -1 with ENOMEM; the counter has
\* advanced, both endpoints carry the new id, every other node carries the
\* id it had or the new one, and no node was created or destroyed.
C17_MergeOom ==
    \A s1 \in ValidSeqs, s2 \in ValidSeqs, ub \in {"crash", "continue"} :
        (~crashed /\ Merges(s1, s2) /\ ub \in UbChoices(s1, s2)) =>
            \A F \in FailSets(seq_equiv(Heap, abstract_classes_amount, s1, s2, FALSE,
                                        {}, "continue").a.k) :
                \E r \in {seq_equiv(Heap, abstract_classes_amount, s1, s2, FALSE, F, ub)} :
                    r.a.oom =>
                        /\ r.ret = -1
                        /\ r.a.errno = ENOMEM
                        /\ r.amount = abstract_classes_amount + 1
                        /\ r.a.h.abstract_class[Node(Heap, s1)] = r.amount
                        /\ r.a.h.abstract_class[Node(Heap, s2)] = r.amount
                        /\ r.a.h.allocated = allocated
                        /\ r.a.h.next = next
                        /\ \A a \in allocated :
                               r.a.h.abstract_class[a] \in {abstract_class[a], r.amount}

\* the fifth malloc of a merge failed, while the scan migrated a third node:
\* the call returned -1 and the three nodes carry the new id
C17_Witness ==
    /\ last.op = "seq_equiv" /\ last.oom /\ last.ret = -1 /\ last.k = 5
    /\ Cardinality(Members(Heap, abstract_classes_amount)) = 3

\* C18: in every reachable store, seq_remove of a valid sequence whose path
\* is missing at some prefix returns 0 and leaves the store as it is, the
\* present proper prefixes of the sequence included.
C18_RemoveAbsent ==
    \A s \in ValidSeqs :
        (~crashed /\ seq_valid(Heap, s) = 0) =>
            \E r \in {seq_remove(Heap, s)} :
                /\ r.ret = 0
                /\ r.h = Heap
                /\ \A q \in Prefixes(s) : seq_valid(r.h, q) = seq_valid(Heap, q)

\* seq_remove returned 0 in a store where a two-symbol sequence is absent
\* and its one-symbol prefix is present, in a class
C18_Witness ==
    /\ last.op = "seq_remove" /\ last.ret = 0 /\ last.errno = UNSET
    /\ \E s \in ValidSeqs :
           /\ Len(s) = 2
           /\ seq_valid(Heap, s) = 0
           /\ Classed(SubSeq(s, 1, 1))

\* C19: in every reachable state the root node is live, has class id -1 and
\* has no name, after any calls, failed ones included.
C19_RootUntouched ==
    /\ Root \in allocated
    /\ abstract_class[Root] = -1
    /\ abstract_class_name[Root] = NULLNAME

\* ids were minted up to the cap, three nodes form one named class (so that
\* renames or migrations went through the tree), and the root is as made
C19_Witness ==
    /\ Len(minted) = MaxClasses
    /\ Cardinality(Members(Heap, abstract_classes_amount)) = 3
    /\ \A a \in Members(Heap, abstract_classes_amount) : abstract_class_name[a] # NULLNAME
    /\ C19_RootUntouched

\* C20 as stated: the two minting paths disagree by one on the counter value
\* that becomes the id, so that an id minted by one operation right after an
\* id minted by the other is not the next integer: it repeats the earlier id
\* or skips one.
C20_PathSwitchOverlapsOrSkips ==
    \A i \in 1..(Len(minted_by) - 1) :
        minted_by[i] # minted_by[i + 1] => minted[i + 1] # minted[i] + 1

\* C20: however the ids minted by seq_set_name and by seq_equiv interleave,
\* the i-th minted id is i: both paths take the counter value plus one, so
\* no id repeats and none is skipped.
C20_IdsConsecutive ==
    /\ Len(minted_by) = Len(minted)
    /\ \A i \in 1..Len(minted) : minted[i] = i
    /\ set_name_mint(abstract_classes_amount) = equiv_mint(abstract_classes_amount)

\* seq_set_name, seq_equiv and seq_set_name again minted the ids 1, 2, 3
C20_Witness ==
    /\ minted_by = <<"seq_set_name", "seq_equiv", "seq_set_name">>
    /\ Len(minted) = 3

\* seq_set_name(s, n) would assign a class: valid arguments, s present and
\* unclassed, and the malloc of the name succeeding
SetNameMints(s, n, F) ==
    /\ check_str_for_inval(s) = 0
    /\ n # NULLNAME /\ Len(n) > 0
    /\ Node(Heap, s) # NULL
    /\ abstract_class[Node(Heap, s)] = -1
    /\ 1 \notin F

\* what the counter is and which calls would advance it, in one state
CounterState ==
    /\ abstract_classes_amount = Len(minted)
    /\ \A a \in allocated :
           abstract_class[a] = -1 \/ abstract_class[a] \in 1..abstract_classes_amount
    /\ \A s \in InSeqs, n \in InNames, F \in FailSets(1) :
           \E r \in {seq_set_name(Heap, abstract_classes_amount, s, n, F)} :
               r.amount = IF SetNameMints(s, n, F)
                          THEN abstract_classes_amount + 1
                          ELSE abstract_classes_amount
    /\ \A in \in EquivInputs, alias \in BOOLEAN, F \in FailSets(1) :
           (alias => in[1] = in[2]) =>
               \E r \in {seq_equiv(Heap, abstract_classes_amount, in[1], in[2], alias, F,
                                   "continue")} :
                   r.amount = IF ~alias /\ Merges(in[1], in[2])
                              THEN abstract_classes_amount + 1
                              ELSE abstract_classes_amount

\* how one call may change the counter
CounterStep ==
    /\ abstract_classes_amount' \in
           {abstract_classes_amount, abstract_classes_amount + 1}
    /\ abstract_classes_amount' = abstract_classes_amount + 1
           <=> Len(minted_by') = Len(minted_by) + 1
    /\ abstract_classes_amount' = abstract_classes_amount + 1
           => \E a \in allocated : /\ abstract_class[a] # abstract_class'[a]
                                   /\ abstract_class'[a] = abstract_classes_amount'
    /\ (allocated' # allocated \/ next' # next)
           => abstract_classes_amount' = abstract_classes_amount

\* C21: the counter is the number of ids minted so far (0 at the start),
\* every node's class id is -1 or between 1 and the counter, a call advances
\* the counter by exactly 1 when seq_set_name assigns a class to an
\* unclassed node or seq_equiv mints a class and leaves it unchanged in
\* every other case (insertion, removal, lookups, a rename of a class, a
\* rejected or ineffective call); it never decreases.
C21_Counter == [](~crashed => CounterState) /\ [][CounterStep]_vars

\* both operations minted ids, the counter is at its cap, and the nodes of
\* one of the minted ids were removed or migrated
C21_Witness ==
    /\ abstract_classes_amount = MaxClasses
    /\ \E i \in 1..Len(minted_by), j \in 1..Len(minted_by) : minted_by[i] # minted_by[j]
    /\ \E c \in 1..abstract_classes_amount : Members(Heap, c) = {}
    /\ \E a \in allocated : a # Root /\ abstract_class[a] = -1

\* C22: in every reachable store, when seq_equiv merges two endpoints of
\* which at least one has no class, every other node that had class id -1
\* has class id -1 and no name afterwards, whichever malloc call fails.
C22_UnclassedNotPulled ==
    \A s1 \in ValidSeqs, s2 \in ValidSeqs, ub \in {"crash", "continue"} :
        (/\ ~crashed
         /\ Merges(s1, s2)
         /\ ub \in UbChoices(s1, s2)
         /\ (abstract_class[Node(Heap, s1)] = -1 \/ abstract_class[Node(Heap, s2)] = -1))
        => \A F \in FailSets(seq_equiv(Heap, abstract_classes_amount, s1, s2, FALSE,
                                       {}, "continue").a.k) :
               \E r \in {seq_equiv(Heap, abstract_classes_amount, s1, s2, FALSE, F, ub)} :
                   \A a \in allocated \ {Node(Heap, s1), Node(Heap, s2)} :
                       abstract_class[a] = -1 =>
                           /\ r.a.h.abstract_class[a] = -1
                           /\ r.a.h.abstract_class_name[a] = NULLNAME

\* the first class ever minted came from a merge that returned 1, so both
\* its endpoints were unclassed; it has two members, and a third node of the
\* tree is still unclassed
C22_Witness ==
    /\ last.op = "seq_equiv" /\ last.ret = 1
    /\ abstract_classes_amount = 1
    /\ Cardinality(Members(Heap, 1)) = 2
    /\ \E a \in allocated : a # Root /\ abstract_class[a] = -1

\* C23: in every reachable state a node that has a name has a class id other
\* than -1, after failed calls too.
C23_NamedIsClassed ==
    \A a \in allocated :
        abstract_class_name[a] # NULLNAME => abstract_class[a] # -1

\* a merge failed on allocation after it had named a node: the store holds a
\* named node and a classed node without a name
C23_Witness ==
    /\ last.op = "seq_equiv" /\ last.oom /\ last.ret = -1
    /\ \E a \in allocated : abstract_class_name[a] # NULLNAME
    /\ \E a \in allocated : abstract_class[a] # -1 /\ abstract_class_name[a] = NULLNAME

\* C24: in every reachable store, seq_set_name with a valid name on a valid
\* sequence that is absent returns 0, the value it returns when the name is
\* already the one asked for, without a malloc call and without setting
\* errno, and nodes, class ids, names and counter are unchanged.
C24_SetNameAbsent ==
    \A s \in ValidSeqs, n \in GoodNames, F \in FailSets(1) :
        (~crashed /\ seq_valid(Heap, s) = 0) =>
            \E r \in {seq_set_name(Heap, abstract_classes_amount, s, n, F)} :
                /\ r.ret = 0
                /\ r.a.k = 0
                /\ r.a.errno = UNSET
                /\ r.mint = <<>>
                /\ Store(r.a.h, r.amount) = Store(Heap, abstract_classes_amount)
                /\ \A t \in ValidSeqs :
                       (Classed(t) /\ EndName(t) \in GoodNames) =>
                           seq_set_name(Heap, abstract_classes_amount, t, EndName(t),
                                        F).ret = r.ret

\* seq_set_name returned 0 in a store with a named class and an absent
\* sequence whose prefix is present
C24_Witness ==
    /\ last.op = "seq_set_name" /\ last.ret = 0 /\ last.k = 0
    /\ \E a \in allocated : abstract_class[a] # -1 /\ abstract_class_name[a] # NULLNAME
    /\ \E s \in ValidSeqs :
           Len(s) = 2 /\ seq_valid(Heap, s) = 0 /\ seq_valid(Heap, SubSeq(s, 1, 1)) = 1

\* C25: in every reachable store, when the malloc of seq_set_name fails for
\* a present sequence whose node has no class, the call returns -1 with
\* ENOMEM, mints nothing, and nodes, class ids, names and counter are as
\* before: the node still has class id -1 and no name.
C25_AssignOom ==
    \A s \in ValidSeqs, n \in GoodNames, F \in FailSets(1) \ {{}} :
        (/\ ~crashed
         /\ seq_valid(Heap, s) = 1
         /\ abstract_class[Node(Heap, s)] = -1)
        => \E r \in {seq_set_name(Heap, abstract_classes_amount, s, n, F)} :
               /\ r.ret = -1
               /\ r.a.errno = ENOMEM
               /\ r.mint = <<>>
               /\ Store(r.a.h, r.amount) = Store(Heap, abstract_classes_amount)
               /\ r.a.h.abstract_class[Node(Heap, s)] = -1
               /\ r.a.h.abstract_class_name[Node(Heap, s)] = NULLNAME

\* seq_set_name returned -1 after its malloc failed, in a store that holds
\* a named class and an unclassed node
C25_Witness ==
    /\ last.op = "seq_set_name" /\ last.oom /\ last.ret = -1 /\ last.errno = ENOMEM
    /\ \E a \in allocated : abstract_class[a] # -1 /\ abstract_class_name[a] # NULLNAME
    /\ \E a \in allocated : a # Root /\ abstract_class[a] = -1

\* C26: in every reachable store, for a present sequence s and a sequence t
\* that is s or an extension of s: seq_remove(s) returns 1, seq_add(t) after
\* it returns 1, and then s and every prefix of t that extends s is present
\* with class id -1 and no name (seq_get_name returns NULL with errno 0),
\* whatever class and name s had; every sequence that does not extend s has
\* the presence, the class id and the name it had before the removal.
C26_ReinsertFresh ==
    \A s \in ValidSeqs, t \in ValidSeqs :
        (~crashed /\ seq_valid(Heap, s) = 1 /\ IsPrefix(s, t)) =>
            \E r1 \in {seq_remove(Heap, s)} :
                /\ r1.ret = 1
                /\ \E r2 \in {seq_add(r1.h, t, {})} :
                       /\ r2.ret = 1
                       /\ \A q \in Prefixes(t) :
                              IsPrefix(s, q) =>
                                  /\ Info(r2.h, q) = [present |-> TRUE, class |-> -1,
                                                      name |-> NULLNAME]
                                  /\ seq_get_name(r2.h, q).errno = ENONE
                       /\ \A u \in Sequences3 :
                              ~IsPrefix(s, u) => Info(r2.h, u) = Info(Heap, u)

\* an insertion returned 1 and left an unclassed node, after the nodes of a
\* class minted earlier were removed, while another class keeps a named node
C26_Witness ==
    /\ last.op = "seq_add" /\ last.ret = 1
    /\ \E a \in allocated : a # Root /\ abstract_class[a] = -1
    /\ \E c \in 1..abstract_classes_amount : Members(Heap, c) = {}
    /\ \E a \in allocated : abstract_class[a] # -1 /\ abstract_class_name[a] # NULLNAME

\* C27: in every reachable store, seq_equiv with the same present sequence
\* as both arguments, given as one pointer or as two equal strings, returns
\* 0 and changes no class id, no name and not the counter, whether or not
\* the node of the sequence has a class.
C27_SelfMerge ==
    \A s \in ValidSeqs, alias \in BOOLEAN :
        (~crashed /\ seq_valid(Heap, s) = 1) =>
            \E r \in {seq_equiv(Heap, abstract_classes_amount, s, s, alias, {},
                                "continue")} :
                /\ r.ret = 0
                /\ r.mint = <<>>
                /\ Store(r.a.h, r.amount) = Store(Heap, abstract_classes_amount)

\* C28: in every reachable store, whichever single malloc call of a merging
\* seq_equiv fails (a snapshot, the name of an endpoint, the name of a
\* migrated node), the call returns -1, the counter is one higher than
\* before, the new id is that counter value, and both endpoints carry it.
C28_MergeOomConsumesId ==
    \A s1 \in ValidSeqs, s2 \in ValidSeqs :
        (~crashed /\ Merges(s1, s2)) =>
            \A k \in 1..seq_equiv(Heap, abstract_classes_amount, s1, s2, FALSE, {},
                                  "continue").a.k :
                \E r \in {seq_equiv(Heap, abstract_classes_amount, s1, s2, FALSE, {k},
                                    "continue")} :
                    /\ r.a.oom
                    /\ r.ret = -1
                    /\ r.amount = abstract_classes_amount + 1
                    /\ r.mint = <<abstract_classes_amount + 1>>
                    /\ {Node(Heap, s1), Node(Heap, s2)} \subseteq Members(r.a.h, r.amount)

\* the first malloc of a merge, a name snapshot, failed: the call returned
\* -1, the counter stands at the id minted last, and two nodes carry that id
C28_Witness ==
    /\ last.op = "seq_equiv" /\ last.oom /\ last.ret = -1 /\ last.k = 1
    /\ abstract_classes_amount = Len(minted)
    /\ abstract_classes_amount >= 2
    /\ Cardinality(Members(Heap, abstract_classes_amount)) = 2
====
